---- MODULE Spec2Model ----
(***************************************************************************)
(* Model of src/RyobiGDOApi.ts: the RyobiGDOApi class (openDoor,           *)
(* closeDoor, getStatus and their private helpers), the per-command        *)
(* WebSocket handshake and the cookie/session bookkeeping.                 *)
(*                                                                         *)
(* Every async function is cut at its awaits: an action runs one caller    *)
(* from the point where it was resumed up to the next await that really    *)
(* suspends it (an HTTP response, a promise another callback settles, or   *)
(* the microtask hop of `await this.getApiKey()`).                         *)
(***************************************************************************)
EXTENDS Integers, Sequences, FiniteSets, TLC

(***************************************************************************)
(* Bounds of the model.                                                    *)
(***************************************************************************)
MaxTime == 2        \* the clock runs 0..MaxTime
MaxCalls == 2       \* public operations started in one behaviour
MaxMsgs == 2        \* text messages delivered on one WebSocket

Tasks == {1, 2}     \* callers that may be in flight at the same time

(***************************************************************************)
(* JavaScript values.  A value is a record with its typeof tag; numbers    *)
(* use n, strings use s.  Dates are objects: a valid one carries its time  *)
(* in n, `new Date(<garbage>)` is the Invalid Date (time NaN).             *)
(***************************************************************************)
Undefined == [t |-> "undefined", n |-> 0, s |-> ""]
Num(k) == [t |-> "number", n |-> k, s |-> ""]
Str(x) == [t |-> "string", n |-> 0, s |-> x]
DateAt(k) == [t |-> "date", n |-> k, s |-> ""]
InvalidDate == [t |-> "date", n |-> 0, s |-> "Invalid Date"]

\* ToBoolean: undefined, 0 and '' are falsy; objects (dates) are truthy.
Truthy(v) ==
  CASE v.t = "undefined" -> FALSE
    [] v.t = "number" -> v.n # 0
    [] v.t = "string" -> v.s # ""
    [] OTHER -> TRUE

\* a ?? b
Nullish(a, b) == IF a = Undefined THEN b ELSE a

\* `d > new Date()` with the clock at `clock`: NaN compares false.
DateAfter(d, clock) == d.t = "date" /\ d.s = "" /\ d.n > clock

toNumber_Coerce(value) ==
  CASE value.t = "number" -> value
    [] value = Str("7") -> Num(7)
    [] OTHER -> Undefined

toNumber(value) == IF value.t = "number" THEN value ELSE Undefined

doorStateMap_Shifted(code) ==
  CASE code = 0 -> Str("OPEN")
    [] code = 1 -> Str("CLOSED")
    [] code = 2 -> Str("CLOSING")
    [] code = 3 -> Str("OPENING")
    [] OTHER -> Undefined

\* doorStateMap.get(code): undefined for a key the Map does not hold.
doorStateMap(code) ==
  CASE code = 0 -> Str("CLOSED")
    [] code = 1 -> Str("OPEN")
    [] code = 2 -> Str("CLOSING")
    [] code = 3 -> Str("OPENING")
    [] OTHER -> Undefined

(***************************************************************************)
(* Session and cookies.  A set-cookie header is the sequence of its        *)
(* `key=value` parts separated by ';' (the cookie pair first, attributes   *)
(* after it).                                                              *)
(***************************************************************************)
\* Keys that /expires\s*=\s*([^;]+)/i finds a match in: the pattern is not
\* anchored, so a key that merely ends in "expires" matches too.
ExpiresKeys == {"expires", "Expires", "session_expires"}

\* new Date(text): the texts "1".."9" stand for the instants 1..9, any other
\* text is not a date.
ParseDate(text) ==
  CASE text = "1" -> DateAt(1)
    [] text = "2" -> DateAt(2)
    [] text = "3" -> DateAt(3)
    [] text = "4" -> DateAt(4)
    [] text = "5" -> DateAt(5)
    [] OTHER -> InvalidDate

\* cookie.match(/expires\s*=\s*([^;]+)/i): the first part whose key matches.
ExpiresParts(cookie) == {i \in 1..Len(cookie) : cookie[i][1] \in ExpiresKeys}
FirstExpires(cookie) ==
  cookie[CHOOSE i \in ExpiresParts(cookie) : \A j \in ExpiresParts(cookie) : i <= j][2]

mergeCookie_LatestExpiry(session, cookie) ==
  LET parsed == ParseDate(FirstExpires(cookie))
      later == session.cookieExpires.t # "date" \/ parsed.n > session.cookieExpires.n
      withExpiry ==
        IF ExpiresParts(cookie) # {} /\ later
        THEN [session EXCEPT !.cookieExpires = parsed]
        ELSE session
      name == cookie[1][1]
      value == cookie[1][2]
  IN IF Len(cookie) > 0
     THEN [withExpiry EXCEPT !.cookies =
             [k \in DOMAIN @ \cup {name} |-> IF k = name THEN value ELSE @[k]]]
     ELSE withExpiry

\* One iteration of the loop of updateSessionFromCookies.
mergeCookie(session, cookie) ==
  LET withExpiry ==
        IF ExpiresParts(cookie) # {}
        THEN [session EXCEPT !.cookieExpires = ParseDate(FirstExpires(cookie))]
        ELSE session
      name == cookie[1][1]
      value == cookie[1][2]
  IN IF Len(cookie) > 0
     THEN [withExpiry EXCEPT !.cookies =
             [k \in DOMAIN @ \cup {name} |-> IF k = name THEN value ELSE @[k]]]
     ELSE withExpiry

RECURSIVE updateSessionFromCookies(_, _)
updateSessionFromCookies(session, cookies) ==
  IF cookies = <<>> THEN session
  ELSE updateSessionFromCookies(mergeCookie(session, Head(cookies)), Tail(cookies))

EmptySession == [cookies |-> [k \in {} |-> ""], apiKey |-> Undefined,
                 cookieExpires |-> Undefined]

ApiKeyCached_NotStrict(session, clock) ==
  /\ Truthy(session.apiKey)
  /\ Truthy(session.cookieExpires)
  /\ session.cookieExpires.s = "" /\ session.cookieExpires.n >= clock

\* The condition of getApiKey's early return.
ApiKeyCached(session, clock) ==
  /\ Truthy(session.apiKey)
  /\ Truthy(session.cookieExpires)
  /\ DateAfter(session.cookieExpires, clock)

LoginRejected_StringOnly(body) == body.kind = "string"

\* The condition of getApiKey's throw: result is a string or has no auth.apiKey.
LoginRejected(body) == body.kind = "string" \/ ~Truthy(body.apiKey)

(***************************************************************************)
(* What the vendor's servers may answer.                                   *)
(***************************************************************************)
CookieExp(name, value, when) == <<<<name, value>>, <<"expires", when>>>>

SetCookieLists ==
  {<<>>, <<CookieExp("sid", "a", "bad")>>} \cup
  {<<CookieExp("sid", "a", when)>> : when \in {"1", "2"}} \cup
  {<<CookieExp("sid", "a", "2"), CookieExp("sid", "b", "1")>>,   \* same name twice
   <<CookieExp("sid", "a", "1"), <<<<"tok", "x">>>>, <<>>>>}       \* then no expiry, then no pair

LoginBodies ==
  {[kind |-> "string", apiKey |-> Undefined],      \* {result: "invalid"}
   [kind |-> "object", apiKey |-> Undefined],      \* {result: {}}
   [kind |-> "object", apiKey |-> Str("")],        \* {result: {auth: {apiKey: ""}}}
   [kind |-> "object", apiKey |-> Str("k1")],
   [kind |-> "object", apiKey |-> Str("k2")]}

(***************************************************************************)
(* Devices.  A Partial<RyobiGDODevice> is a record of JavaScript values,   *)
(* Undefined standing for an absent property.                              *)
(***************************************************************************)
NewDevice(id, name) ==
  [id |-> id, name |-> name, description |-> Undefined, model |-> Undefined,
   type |-> Undefined, moduleId |-> Undefined, portId |-> Undefined,
   state |-> Undefined, stateAsOf |-> Undefined]

\* /hub/i.test(text), over the model strings that occur.
MatchesHub(text) == text \in {"wgd1234hub", "GDOHUB"}

\* The arrow function of getDevices' devices.map(...).
toDevice(raw) ==
  LET model == Nullish(raw.typeId, Str(""))
  IN [description |-> Nullish(raw.description, Str("")),
      name |-> Nullish(raw.name, Str("")),
      id |-> Nullish(raw.varName, Str("")),
      model |-> model,
      type |-> IF MatchesHub(model.s) THEN Str("hub") ELSE Str("gdo")]

getDevicesMap(rawList) == [i \in 1..Len(rawList) |-> toDevice(rawList[i])]

\* Array.prototype.find as a sequence of zero or one element; hits are the
\* indices the callback accepts.
FindFirst(list, hits) ==
  IF hits = {} THEN <<>>
  ELSE <<list[CHOOSE i \in hits : \A j \in hits : i <= j]>>

ObjectAssign_Replace(device, found) ==
  IF found = <<>> THEN device
  ELSE [NewDevice(found[1].id, found[1].name) EXCEPT
          !.description = found[1].description, !.model = found[1].model,
          !.type = found[1].type]

\* Object.assign(device, source): source's own properties overwrite; an
\* undefined source (find found nothing) copies nothing.
ObjectAssign(device, found) ==
  IF found = <<>> THEN device
  ELSE [device EXCEPT !.description = found[1].description,
                      !.name = found[1].name,
                      !.id = found[1].id,
                      !.model = found[1].model,
                      !.type = found[1].type]

selectDevice_FallBack(device, devices) ==
  LET byName == {i \in 1..Len(devices) : devices[i].name = device.name}
      notHub == {i \in 1..Len(devices) : devices[i].type # Str("hub")}
  IN IF ~Truthy(device.id) /\ Truthy(device.name) /\ byName # {}
     THEN ObjectAssign(device, FindFirst(devices, byName))
     ELSE ObjectAssign(device, FindFirst(devices, notHub))

\* getDeviceId after `await this.getDevices()`: by name when a name was
\* given and the id is still unset, else the first non-hub entry.
selectDevice(device, devices) ==
  LET byName == {i \in 1..Len(devices) : devices[i].name = device.name}
      notHub == {i \in 1..Len(devices) : devices[i].type # Str("hub")}
  IN IF ~Truthy(device.id) /\ Truthy(device.name)
     THEN ObjectAssign(device, FindFirst(devices, byName))
     ELSE ObjectAssign(device, FindFirst(devices, notHub))

\* getDevicesRaw's throw: result is a string or not an array.
getDevicesRawFails(body) == body.kind = "string" \/ body.kind # "array"

(***************************************************************************)
(* The device-status document.  result is an array of elements, an element *)
(* may hold a deviceTypeMap: a sequence of <<key, module>> in property     *)
(* order, a module being the `at` record of the attributes read here.      *)
(***************************************************************************)
Module(profiles, portId, moduleId, doorState) ==
  [profiles |-> profiles, portId |-> portId, moduleId |-> moduleId,
   doorState |-> doorState]

\* moduleProfiles.value: an array of values, or something that is no array.
Profiles(values) == [isArray |-> TRUE, value |-> values]
NoProfiles == [isArray |-> FALSE, value |-> <<>>]

\* v.indexOf('garageDoor_') === 0, over the strings that occur.
GarageDoorPrefixed(text) ==
  text \in {"garageDoor_0", "garageDoor_5", "garageDoor_7", "garageDoor_undefined"}

\* 'garageDoor_' + portId
garageDoorKey(portId) ==
  CASE portId = Num(0) -> "garageDoor_0"
    [] portId = Num(5) -> "garageDoor_5"
    [] portId = Num(7) -> "garageDoor_7"
    [] portId = Undefined -> "garageDoor_undefined"
    [] OTHER -> "garageDoor_?"

\* The callback of Object.values(map).find(...) in updateDevice.
isGarageDoorModule(m) ==
  /\ m.profiles.isArray
  /\ \E i \in 1..Len(m.profiles.value) :
        m.profiles.value[i].t = "string" /\ GarageDoorPrefixed(m.profiles.value[i].s)

\* map[key]?.at?.doorState?.value
doorStateAt(map, key) ==
  LET hits == {i \in 1..Len(map) : map[i][1] = key}
  IN IF hits = {} THEN Undefined
     ELSE map[CHOOSE i \in hits : TRUE][2].doorState

mapValues(map) == [i \in 1..Len(map) |-> map[i][2]]

\* updateDevice from the module scan to the stateAsOf stamp.
scanStatus(device, map, clock) ==
  LET found == FindFirst(mapValues(map),
                         {i \in 1..Len(map) : isGarageDoorModule(map[i][2])})
      portId == IF found = <<>> THEN Undefined ELSE toNumber(found[1].portId)
      moduleId == IF found = <<>> THEN Undefined ELSE toNumber(found[1].moduleId)
  IN [device EXCEPT !.portId = portId, !.moduleId = moduleId,
                    !.state = toNumber(doorStateAt(map, garageDoorKey(portId))),
                    !.stateAsOf = Num(clock)]

statusInvalid_AlsoNoMap(body) ==
  body.kind # "array" \/ Len(body.result) = 0 \/ ~body.result[1].hasMap

\* !values?.result?.length: no result, or a result of length 0.  A string
\* result has a length of its own.
statusInvalid(body) ==
  body.kind = "missing" \/ (body.kind = "array" /\ Len(body.result) = 0)

\* values.result?.[0]?.deviceTypeMap is absent: no map, or result is a string.
statusHasMap(body) == body.kind = "array" /\ body.result[1].hasMap

RawHub == [varName |-> Str("hub001"), name |-> Str("Hub"),
           description |-> Str("hub"), typeId |-> Str("wgd1234hub")]
RawGdo == [varName |-> Str("abc123"), name |-> Str("MyGDO"),
           description |-> Undefined, typeId |-> Str("wgd1234")]
RawOther == [varName |-> Str("xyz789"), name |-> Str("Other"),
             description |-> Undefined, typeId |-> Str("wgd1234")]
RawTwin == [varName |-> Str("def456"), name |-> Str("MyGDO"),
            description |-> Undefined, typeId |-> Str("wgd1234")]
RawBare == [varName |-> Undefined, name |-> Undefined,
            description |-> Undefined, typeId |-> Undefined]

DeviceListBodies ==
  {[kind |-> "string", entries |-> <<>>],          \* {result: "Unauthorized"}
   [kind |-> "object", entries |-> <<>>],          \* {result: {}} or no result
   [kind |-> "array", entries |-> <<>>],
   [kind |-> "array", entries |-> <<RawHub, RawGdo>>],
   [kind |-> "array", entries |-> <<RawOther, RawTwin>>],
   [kind |-> "array", entries |-> <<RawBare>>]}

GarageDoor(key, portId, moduleId, doorState) ==
  <<key, Module(Profiles(<<Str("wifi"), Str(key)>>), portId, moduleId, doorState)>>
GarageLight ==
  <<"garageLight_7", Module(Profiles(<<Str("garageLight_7")>>), Num(7), Num(6), Undefined)>>
MasterUnit == <<"masterUnit", Module(NoProfiles, Undefined, Undefined, Undefined)>>

StatusDoc(map) == [kind |-> "array", result |-> <<[hasMap |-> TRUE, map |-> map]>>]

\* The door-state codes a status document carries in the model.
DoorCodes == {0, 1, 2, 3, 4}

StatusBodies ==
  {[kind |-> "missing", result |-> <<>>],                        \* {}
   [kind |-> "array", result |-> <<>>],                          \* {result: []}
   [kind |-> "string", result |-> <<>>],                         \* {result: "Unauthorized"}
   [kind |-> "array", result |-> <<[hasMap |-> FALSE, map |-> <<>>]>>],
   StatusDoc(<<MasterUnit, GarageLight>>),                       \* no garage-door module
   StatusDoc(<<GarageDoor("garageDoor_0", Num(0), Num(5), Num(1))>>),            \* port 0
   StatusDoc(<<GarageDoor("garageDoor_7", Num(7), Num(0), Num(1))>>),            \* module 0
   StatusDoc(<<GarageDoor("garageDoor_7", Str("7"), Num(5), Num(1))>>),          \* portId not a number
   StatusDoc(<<GarageDoor("garageDoor_7", Num(7), Num(5), Undefined)>>)} \cup    \* no doorState
  {StatusDoc(<<GarageLight, GarageDoor("garageDoor_7", Num(7), Num(5), Num(c))>>) : c \in DoorCodes}

InitDevices ==
  {NewDevice(Undefined, Str("MyGDO")), NewDevice(Undefined, Undefined),
   NewDevice(Str("abc123"), Undefined)}

(***************************************************************************)
(* State.                                                                  *)
(***************************************************************************)
VARIABLES
  device,      \* the device object the callers share
  known,       \* history: the fields of the device that were ever defined
  session,     \* this.session
  expired,     \* history: the cached key outlived its expiry, no login succeeded since
  now,         \* the clock (new Date(), Date.now())
  task,        \* per caller: where its public operation stands
  ws,          \* per caller: the WebSocket of its sendWebsocketCommand
  sockets,     \* every WebSocket constructed: the invocation that opened it
  calls        \* public operations started

vars == <<device, known, session, expired, now, task, ws, sockets, calls>>

Ops == {"openDoor", "closeDoor", "getStatus"}
Commands == {"openDoor", "closeDoor"}

\* A caller's record.  pc is the await it is suspended at; stage, uri, apiKey
\* and checked are the locals that live across awaits; result, value and
\* error are what the public operation gave its caller; akCalls, logins,
\* updates, scans and opened count this invocation's getApiKey calls, login
\* requests, updateDevice runs, module scans and WebSockets.
IdleTask ==
  [pc |-> "idle", op |-> "none", inv |-> 0, stage |-> "none", uri |-> Undefined,
   apiKey |-> Undefined, checked |-> <<>>, result |-> "none", value |-> Undefined,
   error |-> "none", akCalls |-> 0, logins |-> 0, updates |-> 0, scans |-> 0,
   opened |-> 0]

NoSocket ==
  [conn |-> 0, readyState |-> "NONE", complete |-> FALSE, outcome |-> "none",
   msgs |-> 0, log |-> <<>>]

NoFrame ==
  [kind |-> "none", by |-> 0, apiKey |-> Undefined, moduleType |-> Undefined,
   portId |-> Undefined, topic |-> Undefined, doorCommand |-> Undefined]

\* The fields the device record is said to keep once it has them.
Enriched == {"id", "moduleId", "portId", "state"}
Defined(dev) == {f \in Enriched : dev[f] # Undefined}

Init ==
  /\ device \in InitDevices
  /\ known = Defined(device)
  /\ session = EmptySession
  /\ expired = FALSE
  /\ now = 0
  /\ task = [t \in Tasks |-> IdleTask]
  /\ ws = [t \in Tasks |-> NoSocket]
  /\ sockets = <<>>
  /\ calls = 0

(***************************************************************************)
(* The code between two awaits.  Each operator below is a piece of an      *)
(* async function that runs without suspending; it fixes task' and leaves  *)
(* the other variables to the action that uses it.                         *)
(***************************************************************************)
Resume(t, tk) == task' = [task EXCEPT ![t] = tk]

\* The operation is over: its locals are gone.
Finished(tk, result, value, err) ==
  [tk EXCEPT !.pc = "done", !.result = result, !.value = value, !.error = err,
             !.stage = "none", !.uri = Undefined, !.apiKey = Undefined,
             !.checked = <<>>, !.akCalls = 0, !.logins = 0]

facadeThrow_Propagate(tk, err) == Finished(tk, "threw", Undefined, err)

facadeThrow_Swallow(tk, err) == Finished(tk, "returned", Undefined, err)

\* An exception reaching the public operation: openDoor and closeDoor catch
\* and log it, getStatus has no handler.
facadeThrow(tk, err) ==
  IF tk.op \in Commands
  THEN Finished(tk, "returned", Undefined, err)
  ELSE Finished(tk, "threw", Undefined, err)

Throw(t, tk, err) == Resume(t, facadeThrow(tk, err))

Return(t, tk, value) == Resume(t, Finished(tk, "returned", value, "none"))

\* getApiKey up to its return or to the login request being issued.
getApiKey(t, tk, stage) ==
  IF ApiKeyCached(session, now)
  THEN Resume(t, [tk EXCEPT !.pc = "ak_ret", !.stage = stage, !.akCalls = @ + 1,
                            !.apiKey = session.apiKey])
  ELSE Resume(t, [tk EXCEPT !.pc = "login_hdr", !.stage = stage, !.akCalls = @ + 1,
                            !.logins = @ + 1])

\* updateDevice from `const queryUri = ...` to `await this.getApiKey()`.
updateDeviceQuery(t, tk, dev) ==
  getApiKey(t, [tk EXCEPT !.uri = dev.id], "status")

\* updateDevice from its start: getDeviceId, getDevices and their getApiKey
\* when the id is unset.
updateDevice(t, tk, dev) ==
  IF ~Truthy(dev.id)
  THEN getApiKey(t, [tk EXCEPT !.updates = @ + 1], "list")
  ELSE updateDeviceQuery(t, [tk EXCEPT !.updates = @ + 1], dev)

\* The two addressing throws of sendWebsocketCommand.
addressingError(dev) ==
  CASE ~Truthy(dev.moduleId) -> "doorModuleId is undefined"
    [] ~Truthy(dev.portId) -> "doorPortId is undefined"
    [] OTHER -> "none"

\* sendWebsocketCommand from the addressing checks to `await this.getApiKey()`.
sendCommandChecked(t, tk, dev) ==
  IF addressingError(dev) # "none"
  THEN Throw(t, tk, addressingError(dev))
  ELSE getApiKey(t, [tk EXCEPT !.checked = <<dev.moduleId, dev.portId>>], "ws")

\* The condition of sendWebsocketCommand's first if.
needsUpdate(dev) == ~Truthy(dev.moduleId) \/ ~Truthy(dev.portId)

\* sendWebsocketCommand from its start.
sendWebsocketCommand(t, tk, dev) ==
  IF needsUpdate(dev)
  THEN updateDevice(t, tk, dev)
  ELSE sendCommandChecked(t, tk, dev)

\* getStatus after `await this.updateDevice(device)`.
getStatusResult(dev) ==
  IF dev.state = Undefined THEN Undefined ELSE doorStateMap(dev.state.n)

\* The caller of updateDevice after it returned.
afterUpdateDevice(t, tk, dev) ==
  IF tk.op = "getStatus"
  THEN Return(t, tk, getStatusResult(dev))
  ELSE sendCommandChecked(t, tk, dev)

(***************************************************************************)
(* Promise and WebSocket helpers.                                          *)
(***************************************************************************)
settle_LastWins(outcome, to) == to

\* resolve()/reject() of the command's promise: only the first call counts.
settle(outcome, to) == IF outcome = "pending" THEN to ELSE outcome

newSocketId_Reuse(opened) == 1

\* new WebSocket(websocketURL): a socket of its own for every execution.
newSocketId(opened) == Len(opened) + 1

closeOutcome_AlwaysRejects(socket) ==
  settle(socket.outcome, "WebSocket closed prematurely")

\* The 'close' handler: reject unless the command was sent.
closeOutcome(socket) ==
  IF ~socket.complete
  THEN settle(socket.outcome, "WebSocket closed prematurely")
  ELSE socket.outcome

Event(kind, t) == [NoFrame EXCEPT !.kind = kind, !.by = task[t].inv]

\* The gdoModuleCommand frame, built when the authorized message arrives.
commandFrame(t, dev) ==
  [Event("command", t) EXCEPT
     !.moduleType = dev.moduleId, !.portId = dev.portId, !.topic = dev.id,
     !.doorCommand = IF task[t].op = "openDoor" THEN Num(1) ELSE Num(0)]

(***************************************************************************)
(* Actions.                                                                *)
(***************************************************************************)
\* A caller's slot is free once its operation is over and its socket closed.
Free(t) == task[t].pc \in {"idle", "done"} /\ ws[t].readyState \in {"NONE", "CLOSED"}

\* A caller invokes openDoor, closeDoor or getStatus on the shared device
\* (callers are interchangeable: the new one takes the first free slot).
Call(t, op) ==
  /\ calls < MaxCalls
  /\ Free(t)
  /\ \A u \in Tasks : u < t => ~Free(u)
  /\ calls' = calls + 1
  /\ ws' = [ws EXCEPT ![t] = NoSocket]
  /\ LET tk == [IdleTask EXCEPT !.op = op, !.inv = calls + 1, !.result = "pending"]
     IN IF op = "getStatus"
        THEN updateDevice(t, tk, device)
        ELSE sendWebsocketCommand(t, tk, device)
  /\ UNCHANGED <<device, known, session, expired, now, sockets>>

\* `await this.getApiKey()` resumes its caller.
ApiKeyReturned(t) ==
  /\ task[t].pc = "ak_ret"
  /\ CASE task[t].stage = "list" ->       \* getDevices: getDevicesRaw's GET
            /\ Resume(t, [task[t] EXCEPT !.pc = "list_hdr"])
            /\ UNCHANGED <<ws, sockets>>
       [] task[t].stage = "status" ->     \* updateDevice: the status GET
            /\ Resume(t, [task[t] EXCEPT !.pc = "st_hdr"])
            /\ UNCHANGED <<ws, sockets>>
       [] task[t].stage = "ws" ->         \* sendWebsocketCommand: new WebSocket
            LET id == newSocketId(sockets)
            IN /\ Resume(t, [task[t] EXCEPT !.pc = "ws_wait", !.opened = @ + 1])
               /\ ws' = [ws EXCEPT ![t] =
                           [NoSocket EXCEPT !.conn = id, !.readyState = "CONNECTING",
                                            !.outcome = "pending"]]
               /\ sockets' = [c \in DOMAIN sockets \cup {id} |->
                                IF c = id THEN task[t].inv ELSE sockets[c]]
  /\ UNCHANGED <<device, known, session, expired, now, calls>>

\* request(): the response of fetch arrives; its set-cookie headers are merged.
ResponseHeaders(t, cookies) ==
  /\ task[t].pc \in {"login_hdr", "list_hdr", "st_hdr"}
  /\ session' = updateSessionFromCookies(session, cookies)
  /\ Resume(t, [task[t] EXCEPT !.pc =
                  CASE @ = "login_hdr" -> "login_body"
                    [] @ = "list_hdr" -> "list_body"
                    [] OTHER -> "st_body"])
  /\ UNCHANGED <<device, known, expired, now, ws, sockets, calls>>

\* fetch rejects, or the body read is not JSON: the exception leaves the
\* request's caller and every async function above it.
RequestFails(t) ==
  /\ task[t].pc \in {"login_hdr", "list_hdr", "st_hdr", "login_body", "list_body", "st_body"}
  /\ Throw(t, task[t], IF task[t].pc \in {"login_hdr", "list_hdr", "st_hdr"}
                       THEN "FetchError" ELSE "SyntaxError")
  /\ UNCHANGED <<device, known, session, expired, now, ws, sockets, calls>>

\* getApiKey after the login response was read and parsed.
LoginBody(t, body) ==
  /\ task[t].pc = "login_body"
  /\ IF LoginRejected(body)
     THEN /\ Throw(t, task[t], "Unauthorized")
          /\ UNCHANGED <<session, expired>>
     ELSE /\ session' = [session EXCEPT !.apiKey = body.apiKey]
          /\ expired' = FALSE
          /\ Resume(t, [task[t] EXCEPT !.pc = "ak_ret", !.apiKey = body.apiKey])
  /\ UNCHANGED <<device, known, now, ws, sockets, calls>>

\* getDevicesRaw after the device list was read, then getDevices, getDeviceId
\* and updateDevice up to its getApiKey.
DevicesBody(t, body) ==
  /\ task[t].pc = "list_body"
  /\ IF getDevicesRawFails(body)
     THEN /\ Throw(t, task[t], "Unauthorized")
          /\ UNCHANGED <<device, known>>
     ELSE LET dev == selectDevice(device, getDevicesMap(body.entries))
          IN /\ device' = dev
             /\ known' = known \cup Defined(dev)
             /\ updateDeviceQuery(t, task[t], dev)
  /\ UNCHANGED <<session, expired, now, ws, sockets, calls>>

\* updateDevice after the status document was read, then its caller up to
\* the next await.
StatusBody(t, body) ==
  /\ task[t].pc = "st_body"
  /\ IF statusInvalid(body)
     THEN /\ Throw(t, task[t], "Invalid response")
          /\ UNCHANGED <<device, known>>
     ELSE LET dev == IF statusHasMap(body)
                     THEN scanStatus(device, body.result[1].map, now)
                     ELSE device
              tk == IF statusHasMap(body)
                    THEN [task[t] EXCEPT !.scans = @ + 1]
                    ELSE task[t]
          IN /\ device' = dev
             /\ known' = known \cup Defined(dev)
             /\ afterUpdateDevice(t, tk, dev)
  /\ UNCHANGED <<session, expired, now, ws, sockets, calls>>

\* ws.on('open'): send the srvWebSocketAuth frame.
WsOpen(t) ==
  /\ ws[t].readyState = "CONNECTING"
  /\ ws' = [ws EXCEPT ![t].readyState = "OPEN",
                      ![t].log = Append(@, [Event("auth", t) EXCEPT
                                              !.apiKey = task[t].apiKey])]
  /\ UNCHANGED <<device, known, session, expired, now, task, sockets, calls>>

\* ws.on('message'): on an authorized result send the command, then ping.
WsMessage(t, authorized) ==
  /\ ws[t].readyState = "OPEN"
  /\ ws[t].msgs < MaxMsgs
  /\ IF ~authorized
     THEN ws' = [ws EXCEPT ![t].msgs = @ + 1]
     ELSE ws' = [ws EXCEPT ![t].msgs = @ + 1, ![t].complete = TRUE,
                           ![t].log = @ \o <<Event("authorized", t),
                                             commandFrame(t, device),
                                             Event("ping", t)>>]
  /\ UNCHANGED <<device, known, session, expired, now, task, sockets, calls>>

\* ws.on('pong'): terminate and resolve.
WsPong(t) ==
  /\ ws[t].readyState = "OPEN"
  /\ ws' = [ws EXCEPT ![t].readyState = "CLOSING",
                      ![t].outcome = settle(@, "resolved"),
                      ![t].log = Append(@, Event("pong", t))]
  /\ UNCHANGED <<device, known, session, expired, now, task, sockets, calls>>

\* ws.on('close')
WsClose(t) ==
  /\ ws[t].readyState \in {"OPEN", "CLOSING"}
  /\ ws' = [ws EXCEPT ![t].readyState = "CLOSED", ![t].outcome = closeOutcome(ws[t])]
  /\ UNCHANGED <<device, known, session, expired, now, task, sockets, calls>>

\* ws.on('error'): reject.  The socket reports an error once: while
\* connecting (the handshake fails), while open (a malformed frame), or
\* during the teardown that follows terminate(); its close comes after.
WsError(t) ==
  /\ ws[t].readyState \in {"CONNECTING", "OPEN", "CLOSING"}
  /\ \A i \in 1..Len(ws[t].log) : ws[t].log[i].kind # "error"
  /\ ws' = [ws EXCEPT ![t].readyState = "CLOSING",
                      ![t].outcome = settle(@, "WebSocket error"),
                      ![t].log = Append(@, Event("error", t))]
  /\ UNCHANGED <<device, known, session, expired, now, task, sockets, calls>>

\* `await promise` of sendWebsocketCommand resumes.
CommandSettled(t) ==
  /\ task[t].pc = "ws_wait"
  /\ ws[t].outcome # "pending"
  /\ IF ws[t].outcome = "resolved"
     THEN Return(t, task[t], Undefined)
     ELSE Throw(t, task[t], ws[t].outcome)
  /\ UNCHANGED <<device, known, session, expired, now, ws, sockets, calls>>

\* Time passes; a cached key whose expiry the clock reaches has expired.
Tick ==
  /\ now < MaxTime
  /\ now' = now + 1
  /\ expired' = (expired \/ (ApiKeyCached(session, now) /\ ~ApiKeyCached(session, now + 1)))
  /\ UNCHANGED <<device, known, session, task, ws, sockets, calls>>

\* One step of the callers in T against servers that answer from the given
\* sets.
Step(T, ops, cookieLists, loginBodies, listBodies, statusBodies) ==
  \/ \E t \in T, op \in ops : Call(t, op)
  \/ \E t \in T : ApiKeyReturned(t)
  \/ \E t \in T, cookies \in cookieLists : ResponseHeaders(t, cookies)
  \/ \E t \in T : RequestFails(t)
  \/ \E t \in T, body \in loginBodies : LoginBody(t, body)
  \/ \E t \in T, body \in listBodies : DevicesBody(t, body)
  \/ \E t \in T, body \in statusBodies : StatusBody(t, body)
  \/ \E t \in T : WsOpen(t)
  \/ \E t \in T, authorized \in BOOLEAN : WsMessage(t, authorized)
  \/ \E t \in T : WsPong(t)
  \/ \E t \in T : WsClose(t)
  \/ \E t \in T : WsError(t)
  \/ \E t \in T : CommandSettled(t)

\* Servers that answer as they should, or refuse: the answers the
\* specifications that study something else draw from.
FewCookieLists == {<<CookieExp("sid", "a", "1")>>}
FewLoginBodies == {[kind |-> "string", apiKey |-> Undefined],
                   [kind |-> "object", apiKey |-> Str("k1")]}
FewListBodies == {[kind |-> "string", entries |-> <<>>],
                  [kind |-> "array", entries |-> <<RawHub, RawGdo>>]}
FewStatusBodies ==
  {[kind |-> "array", result |-> <<>>],
   StatusDoc(<<MasterUnit, GarageLight>>),
   StatusDoc(<<GarageLight, GarageDoor("garageDoor_7", Num(7), Num(5), Num(1))>>)}

\* One caller at a time; every device list and status document.
NextDevice ==
  \/ Step({1}, Ops, FewCookieLists, FewLoginBodies, DeviceListBodies, StatusBodies)
  \/ Tick
SpecDevice == Init /\ [][NextDevice]_vars

\* One caller at a time; every login answer and set-cookie list.
NextAuth ==
  \/ Step({1}, Ops, SetCookieLists, LoginBodies, FewListBodies, FewStatusBodies)
  \/ Tick
SpecAuth == Init /\ [][NextAuth]_vars

\* Two callers in flight on the same device and session, within one instant
\* of the clock, against servers that accept every request and renew the
\* session cookie with every response.
Next ==
  Step(Tasks, {"openDoor", "getStatus"}, FewCookieLists,
       {[kind |-> "object", apiKey |-> Str("k1")]},
       {[kind |-> "array", entries |-> <<RawHub, RawGdo>>]},
       {StatusDoc(<<MasterUnit, GarageLight>>),
        StatusDoc(<<GarageLight, GarageDoor("garageDoor_7", Num(7), Num(5), Num(1))>>)})
\* The callers share a device that is known by name only.
InitByName == Init /\ device = NewDevice(Undefined, Str("MyGDO"))
Spec == InitByName /\ [][Next]_vars

(***************************************************************************)
(* Claims.                                                                 *)
(***************************************************************************)
AddressingErrors == {"doorModuleId is undefined", "doorPortId is undefined"}
Failures ==
  AddressingErrors \cup
  {"FetchError", "SyntaxError", "Unauthorized", "Invalid response",
   "WebSocket closed prematurely", "WebSocket error"}

\* The kinds of the events of a socket's log, in order.
Kinds(log) == [i \in 1..Len(log) |-> log[i].kind]

\* pattern occurs in seq as a subsequence (in this order, gaps allowed).
RECURSIVE OccursInOrder(_, _)
OccursInOrder(pattern, seq) ==
  IF pattern = <<>> THEN TRUE
  ELSE IF seq = <<>> THEN FALSE
  ELSE IF Head(pattern) = Head(seq) THEN OccursInOrder(Tail(pattern), Tail(seq))
  ELSE OccursInOrder(pattern, Tail(seq))

\* C1: openDoor and closeDoor never propagate a failure: whatever went wrong
\* inside sendWebsocketCommand, the operation returns to its caller normally
\* and the failure is only logged.
C1_DoorCommandsNeverThrow ==
  \A t \in Tasks :
    task[t].op \in Commands =>
      /\ task[t].result # "threw"
      /\ (task[t].pc = "done" => task[t].result = "returned" /\ task[t].value = Undefined)
      /\ task[t].error \in Failures \cup {"none"}

\* A door command that failed on a transport error has returned normally.
C1_Witness ==
  \E t \in Tasks :
    /\ task[t].op \in Commands /\ task[t].pc = "done"
    /\ task[t].result = "returned" /\ task[t].error = "WebSocket error"

\* C2: a command's promise resolves only through the pong path: when it is
\* resolved, the auth frame, an authorized message, the command frame, the
\* ping and the pong have occurred on its socket in that order.
C2_ResolvedOnlyThroughPongPath ==
  \A t \in Tasks :
    ws[t].outcome = "resolved" =>
      OccursInOrder(<<"auth", "authorized", "command", "ping", "pong">>, Kinds(ws[t].log))

\* The part of C2 the handlers do guarantee: a resolved promise has seen a
\* pong after the auth frame, every ping directly follows a command frame and
\* every command frame directly follows an authorized message.
C2_OrderOfSends ==
  \A t \in Tasks :
    LET kinds == Kinds(ws[t].log)
    IN /\ ws[t].outcome = "resolved" => OccursInOrder(<<"auth", "pong">>, kinds)
       /\ \A i \in 1..Len(kinds) :
            /\ kinds[i] = "ping" => i > 1 /\ kinds[i - 1] = "command"
            /\ kinds[i] = "command" => i > 1 /\ kinds[i - 1] = "authorized"
            /\ kinds[i] = "authorized" => i > 1 /\ kinds[1] = "auth"

\* C3: when the close event arrives with the command-sent flag unset, the
\* operation does not end resolved, and a still pending operation is rejected
\* with the channel-closed error.
C3_PrematureCloseRejects ==
  [][\A t \in Tasks :
       (ws[t].readyState # "CLOSED" /\ ws'[t].readyState = "CLOSED" /\ ~ws[t].complete) =>
          /\ ws'[t].outcome # "resolved"
          /\ (ws[t].outcome = "pending" =>
                ws'[t].outcome = "WebSocket closed prematurely")]_vars

\* C4: a door command ends with the addressing error, and without a
\* WebSocket, only when moduleId or portId is still undefined after the (at
\* most one) updateDevice run; resolved numbers, 0 included, pass.
C4_AddressingErrorOnlyWhenUnresolved ==
  \A t \in Tasks :
    task[t].op \in Commands =>
      /\ task[t].updates <= 1
      /\ (task[t].pc = "done" /\ task[t].error \in AddressingErrors =>
            /\ task[t].opened = 0
            /\ (device.moduleId = Undefined \/ device.portId = Undefined))

\* C5: after a successful update getStatus returns CLOSED, OPEN, CLOSING,
\* OPENING for the state codes 0, 1, 2, 3 and undefined for any other code
\* and for an unresolved code.
C5_StatusMapping ==
  \A t \in Tasks :
    (task[t].op = "getStatus" /\ task[t].pc = "done" /\ task[t].error = "none") =>
      /\ task[t].result = "returned"
      /\ (device.state = Num(0) => task[t].value = Str("CLOSED"))
      /\ (device.state = Num(1) => task[t].value = Str("OPEN"))
      /\ (device.state = Num(2) => task[t].value = Str("CLOSING"))
      /\ (device.state = Num(3) => task[t].value = Str("OPENING"))
      /\ (device.state \notin {Num(0), Num(1), Num(2), Num(3)} =>
            task[t].value = Undefined)

\* getStatus has returned OPENING for code 3.
C5_Witness ==
  \E t \in Tasks :
    /\ task[t].op = "getStatus" /\ task[t].pc = "done"
    /\ device.state = Num(3) /\ task[t].value = Str("OPENING")

\* C6: getStatus throws exactly when resolution failed (login rejected, device
\* list not an array, status result empty or missing); a status read without
\* a door-state code returns undefined.
C6_StatusPropagatesFailures ==
  \A t \in Tasks :
    (task[t].op = "getStatus" /\ task[t].pc = "done") =>
      /\ task[t].result = "threw" <=>
            task[t].error \in {"FetchError", "SyntaxError", "Unauthorized", "Invalid response"}
      /\ task[t].result = "returned" <=> task[t].error = "none"
      /\ (task[t].result = "returned" /\ device.state = Undefined =>
            task[t].value = Undefined)

\* getStatus has thrown on an empty or missing status result.
C6_Witness ==
  \E t \in Tasks :
    /\ task[t].op = "getStatus" /\ task[t].pc = "done"
    /\ task[t].result = "threw" /\ task[t].error = "Invalid response"

\* The status was read, carried no door-state code, and getStatus returned
\* undefined.
C6_WitnessUnknown ==
  \E t \in Tasks :
    /\ task[t].op = "getStatus" /\ task[t].pc = "done" /\ task[t].result = "returned"
    /\ device.state = Undefined /\ device.stateAsOf # Undefined
    /\ device.moduleId = Num(5)

\* A cached key whose cached expiry is strictly in the future.
KeyInWindow ==
  /\ session.apiKey.t = "string" /\ session.apiKey.s # ""
  /\ session.cookieExpires.t = "date" /\ session.cookieExpires.s = ""
  /\ session.cookieExpires.n > now

\* C7: a getApiKey call made while a key is cached and its expiry is strictly
\* in the future returns that key and issues no login request; a call made
\* otherwise issues one login request.
C7_ApiKeyReuse ==
  [][\A t \in Tasks :
       task'[t].akCalls > task[t].akCalls =>
         IF KeyInWindow
         THEN /\ task'[t].logins = task[t].logins
              /\ task'[t].pc = "ak_ret"
              /\ task'[t].apiKey = session.apiKey
         ELSE /\ task'[t].logins = task[t].logins + 1
              /\ task'[t].pc = "login_hdr"]_vars

\* The first operation called getApiKey twice and logged in once: its second
\* call got the cached key.
C7_Witness ==
  \E t \in Tasks :
    /\ calls = 1 /\ task[t].akCalls = 2 /\ task[t].logins = 1
    /\ task[t].pc = "ak_ret" /\ task[t].apiKey = session.apiKey /\ KeyInWindow

\* The login answer is a refusal: a string result, or no auth.apiKey.
Refusal(body) == body.kind = "string" \/ body.apiKey \in {Undefined, Str("")}

\* C8: a login answer whose result is a string or lacks auth.apiKey makes
\* getApiKey fail with the authentication error and leaves session.apiKey as
\* it was; session.apiKey changes only to the auth.apiKey of an accepted login
\* answer.
C8_LoginFailureKeepsKey ==
  [][/\ \A t \in Tasks, body \in LoginBodies :
          (LoginBody(t, body) /\ Refusal(body)) =>
             /\ session'.apiKey = session.apiKey
             /\ task'[t].pc = "done" /\ task'[t].error = "Unauthorized"
     /\ session'.apiKey # session.apiKey =>
          \E t \in Tasks, body \in LoginBodies :
             /\ LoginBody(t, body) /\ ~Refusal(body)
             /\ session'.apiKey = body.apiKey]_vars

\* The first login was refused: the operation failed and no key was written.
C8_Witness ==
  \E t \in Tasks :
    /\ calls = 1 /\ task[t].pc = "done" /\ task[t].error = "Unauthorized"
    /\ session.apiKey = Undefined

\* C9 (as claimed): every field among id, moduleId, portId and state that
\* was once defined is still defined.
C9_NeverShrinks == \A f \in known : device[f] # Undefined

\* C9 (amended): id, once defined, stays defined; moduleId, portId and state
\* turn back to undefined only in the module scan of updateDevice, on a
\* status document that has a deviceTypeMap.
C9_ShrinksOnlyInStatusScan ==
  [][/\ device.id # Undefined => device'.id # Undefined
     /\ \A f \in {"moduleId", "portId", "state"} :
          (device[f] # Undefined /\ device'[f] = Undefined) =>
             \E t \in Tasks, body \in StatusBodies :
                /\ StatusBody(t, body)
                /\ body.kind = "array" /\ Len(body.result) > 0 /\ body.result[1].hasMap]_vars

\* moduleId was defined once and is undefined now, while id is kept.
C9_Witness ==
  /\ "moduleId" \in known /\ device.moduleId = Undefined
  /\ "id" \in known /\ device.id # Undefined

\* C10: an invocation opens at most one WebSocket, exactly one once its
\* addressing check and its API key succeeded and none before; every frame on
\* a socket was sent by the invocation that opened it, and two invocations
\* never hold the same socket.
C10_OneSocketPerCommand ==
  \A t \in Tasks :
    /\ task[t].opened <= 1
    /\ (task[t].pc = "ws_wait" => task[t].opened = 1 /\ ws[t].conn # 0)
    /\ (task[t].pc \notin {"ws_wait", "done"} => task[t].opened = 0)
    /\ (task[t].op = "getStatus" => task[t].opened = 0)
    /\ (ws[t].conn # 0 =>
          /\ \A i \in 1..Len(ws[t].log) : ws[t].log[i].by = sockets[ws[t].conn]
          /\ \A u \in Tasks \ {t} : ws[u].conn # ws[t].conn)

\* Two commands are in flight at once, each with frames on its own socket.
C10_Witness ==
  \E t, u \in Tasks :
    /\ t # u
    /\ ws[t].readyState = "OPEN" /\ ws[u].readyState = "OPEN"
    /\ Len(ws[t].log) >= 3 /\ Len(ws[u].log) >= 3

\* The headers of a list that carry an expiry, and those that set a name.
WithExpiry(cookies) == {i \in 1..Len(cookies) : ExpiresParts(cookies[i]) # {}}
Setting(cookies, name) ==
  {i \in 1..Len(cookies) : Len(cookies[i]) > 0 /\ cookies[i][1][1] = name}
Last(indices) == CHOOSE i \in indices : \A j \in indices : j <= i
CookieNames(cookies) ==
  {cookies[i][1][1] : i \in {j \in 1..Len(cookies) : Len(cookies[j]) > 0}}

\* C11: merging a set-cookie list is idempotent (merging the same list again
\* changes neither the cookie map nor cookieExpires); the last header of the
\* list that carries an expiry gives cookieExpires, the last header naming a
\* cookie gives its value, and everything else of the session is kept.
C11_CookieMergeIdempotent ==
  [][\A t \in Tasks, cookies \in SetCookieLists :
       ResponseHeaders(t, cookies) =>
         /\ updateSessionFromCookies(session', cookies) = session'
         /\ session'.cookieExpires =
              IF WithExpiry(cookies) = {} THEN session.cookieExpires
              ELSE ParseDate(FirstExpires(cookies[Last(WithExpiry(cookies))]))
         /\ DOMAIN session'.cookies = DOMAIN session.cookies \cup CookieNames(cookies)
         /\ \A name \in DOMAIN session'.cookies :
              session'.cookies[name] =
                IF Setting(cookies, name) = {} THEN session.cookies[name]
                ELSE cookies[Last(Setting(cookies, name))][1][2]
         /\ session'.apiKey = session.apiKey]_vars

\* A list naming sid twice (expiry 2, then expiry 1) was merged: the second
\* value and the second, earlier, expiry are the ones kept, and the clock has
\* since reached 2.
C11_Witness ==
  /\ "sid" \in DOMAIN session.cookies /\ session.cookies["sid"] = "b"
  /\ session.cookieExpires = DateAt(1)
  /\ now = 2

\* The frames this side sent on a socket, in order.
IsSend(kind) == kind \in {"auth", "command", "ping"}
Sent(log) == SelectSeq(Kinds(log), IsSend)
IsPrefix(a, b) == Len(a) <= Len(b) /\ a = SubSeq(b, 1, Len(a))

\* C12: on one socket the frames sent are the auth frame, then the command
\* frame, then the ping, each at most once: whatever messages arrive, nothing
\* is sent beyond that, and the command-sent flag is set exactly when the
\* command frame was sent.
C12_FramesOnceInOrder ==
  \A t \in Tasks :
    /\ IsPrefix(Sent(ws[t].log), <<"auth", "command", "ping">>)
    /\ ws[t].complete <=> \E i \in 1..Len(ws[t].log) : ws[t].log[i].kind = "command"

\* The socket of caller t closed with the command sent and the promise
\* neither resolved nor rejected, and the caller awaits that promise.
ClosedUnsettled(t) ==
  /\ ws[t].readyState = "CLOSED" /\ ws[t].complete /\ ws[t].outcome = "pending"
  /\ task[t].pc = "ws_wait" /\ task[t].result = "pending"

\* C13: a close that arrives after the command-sent flag was set, with no
\* pong and no error before it, leaves the promise pending; from then on
\* nothing settles it and the door command never returns to its caller.
C13_CloseAfterSendHangs ==
  [][\A t \in Tasks :
       /\ (/\ ws[t].readyState # "CLOSED" /\ ws'[t].readyState = "CLOSED"
           /\ ws[t].complete /\ ws[t].outcome = "pending") => ClosedUnsettled(t)'
       /\ ClosedUnsettled(t) => ClosedUnsettled(t)']_vars

\* A door command hangs on a socket that closed after the command was sent,
\* while a later operation has already come and gone.
C13_Witness ==
  \E t, u \in Tasks :
    /\ ClosedUnsettled(t) /\ task[t].op \in Commands
    /\ u # t /\ task[u].pc = "done" /\ task[u].inv > task[t].inv

\* C14: an error event on a socket whose promise is pending rejects it with
\* the transport error, whatever the phase; a settled promise keeps its
\* outcome through every later pong, close or error; and the door command
\* ends with exactly that outcome.
C14_ErrorRejectsSettledOnce ==
  [][\A t \in Tasks :
       /\ (WsError(t) /\ ws[t].outcome = "pending") =>
             ws'[t].outcome = "WebSocket error"
       /\ (task'[t].inv = task[t].inv /\ ws[t].outcome \notin {"none", "pending"}) =>
             ws'[t].outcome = ws[t].outcome
       /\ CommandSettled(t) =>
             task'[t].error = IF ws[t].outcome = "resolved" THEN "none" ELSE ws[t].outcome]_vars

\* One command was resolved by its pong and an error during the teardown
\* left it successful; another was rejected by an error that came after its
\* command frame and ping.
C14_Witness ==
  \E t, u \in Tasks :
    /\ t # u
    /\ OccursInOrder(<<"command", "pong", "error">>, Kinds(ws[t].log))
    /\ ws[t].outcome = "resolved" /\ ws[t].readyState = "CLOSED"
    /\ task[t].pc = "done" /\ task[t].error = "none"
    /\ OccursInOrder(<<"command", "ping", "error">>, Kinds(ws[u].log))
    /\ ws[u].outcome = "WebSocket error"
    /\ task[u].pc = "done" /\ task[u].error = "WebSocket error"

\* C15: once the clock has reached the expiry of a cached key, no getApiKey
\* call returns the cached key without a login request until a login has
\* succeeded again, whatever responses and refused logins came in between.
C15_KeyTrustedOnlyInWindow ==
  [][\A t \in Tasks :
       (task'[t].akCalls > task[t].akCalls /\ task'[t].pc = "ak_ret") => ~expired]_vars

\* C16: the status GET is issued only for a resolved device id: while a
\* caller's status request is out, the id its query URI was built from, and
\* the device's id, are set.
C16_StatusQueryHasId ==
  \A t \in Tasks :
    task[t].pc \in {"st_hdr", "st_body"} =>
      /\ task[t].uri.t = "string" /\ task[t].uri.s # ""
      /\ device.id = task[t].uri

\* The entries of a device list that qualify for a device: those of its name
\* when it has one, else those that are no hub.
Qualifying(dev, devices) ==
  IF dev.name # Undefined /\ dev.name # Str("")
  THEN {i \in 1..Len(devices) : devices[i].name = dev.name}
  ELSE {i \in 1..Len(devices) : devices[i].type = Str("gdo")}

\* The device with the fields of an entry laid over it.
Overlaid(dev, entry) ==
  [f \in DOMAIN dev |-> IF f \in DOMAIN entry THEN entry[f] ELSE dev[f]]

\* C17: an update of a device whose id is set lists nothing and goes straight
\* to the status query, leaving the device as it is; an update of a device
\* without id lists the devices, and the list's first qualifying entry (by
\* name when the device has a name, else the first that is no hub) is laid
\* over the device, which is left alone when no entry qualifies.
C17_DeviceResolution ==
  [][\A t \in Tasks :
       /\ task'[t].updates > task[t].updates =>
            IF device.id.t = "string" /\ device.id.s # ""
            THEN task'[t].stage = "status" /\ device' = device
            ELSE task'[t].stage = "list" /\ device' = device
       /\ \A body \in DeviceListBodies :
            (DevicesBody(t, body) /\ body.kind = "array") =>
               LET devices == getDevicesMap(body.entries)
                   hits == Qualifying(device, devices)
               IN IF hits = {} THEN device' = device
                  ELSE \E i \in hits :
                         /\ \A j \in hits : i <= j
                         /\ device' = Overlaid(device, devices[i])]_vars

\* A device named MyGDO was resolved to the entry of that name although an
\* entry that is no hub came before it in the list, and its query went out.
C17_Witness ==
  \E t \in Tasks :
    /\ device.id = Str("def456") /\ device.name = Str("MyGDO")
    /\ task[t].pc = "st_hdr" /\ task[t].uri = Str("def456")

\* A value when it is a number, unresolved otherwise.
Numeric(v) == IF v.t = "number" THEN v ELSE Undefined

\* C18: a status document with a deviceTypeMap stamps stateAsOf with the
\* current time and leaves the identity of the device alone.  With one module
\* whose moduleProfiles array holds a garageDoor_ string, the device gets
\* that module's portId and moduleId and the doorState of the entry keyed
\* garageDoor_<portId>, each only when it is a number; with no such module
\* the three are unresolved and updateDevice raises nothing.
C18_ModuleScan ==
  [][\A t \in Tasks, body \in StatusBodies :
       (/\ StatusBody(t, body)
        /\ body.kind = "array" /\ Len(body.result) > 0 /\ body.result[1].hasMap) =>
          LET map == body.result[1].map
              doors == {i \in 1..Len(map) : isGarageDoorModule(map[i][2])}
          IN /\ device'.stateAsOf = Num(now)
             /\ \A f \in {"id", "name", "description", "model", "type"} :
                  device'[f] = device[f]
             /\ doors = {} =>
                  /\ device'.moduleId = Undefined /\ device'.portId = Undefined
                  /\ device'.state = Undefined
                  /\ task'[t].error \in AddressingErrors \cup {"none"}
                  /\ (task[t].op = "getStatus" =>
                        task'[t].result = "returned" /\ task'[t].value = Undefined)
             /\ \A i \in doors :
                  Cardinality(doors) = 1 =>
                    /\ device'.portId = Numeric(map[i][2].portId)
                    /\ device'.moduleId = Numeric(map[i][2].moduleId)
                    /\ device'.state =
                         IF device'.portId = Undefined THEN Undefined
                         ELSE Numeric(doorStateAt(map, garageDoorKey(device'.portId)))]_vars

\* A scan at time 1 found the garage-door module with moduleId 5 and a portId
\* that is the string "7": portId and state are unresolved, the stamp is 1.
C18_Witness ==
  /\ device.moduleId = Num(5) /\ device.portId = Undefined
  /\ device.state = Undefined /\ device.stateAsOf = Num(1)

\* C19: a status answer whose result is empty or missing makes updateDevice
\* fail, and one whose non-empty result has no deviceTypeMap in its first
\* element makes it return without error; either way the device, its
\* moduleId, portId, state and stateAsOf included, is left as it was, and
\* getStatus then answers from the state known before.
C19_NoMapLeavesDevice ==
  [][\A t \in Tasks, body \in StatusBodies :
       StatusBody(t, body) =>
         /\ (body.kind = "missing" \/ (body.kind = "array" /\ Len(body.result) = 0)) =>
               /\ device' = device
               /\ task'[t].pc = "done" /\ task'[t].error = "Invalid response"
               /\ task'[t].scans = task[t].scans
         /\ (body.kind = "string" \/
               (body.kind = "array" /\ Len(body.result) > 0 /\ ~body.result[1].hasMap)) =>
               /\ device' = device
               /\ task'[t].error \in AddressingErrors \cup {"none"}
               /\ task'[t].scans = task[t].scans
               /\ (task[t].op = "getStatus" =>
                     /\ task'[t].result = "returned"
                     /\ task'[t].value = getStatusResult(device))]_vars

\* An earlier operation read state 1 at time 0; a later getStatus ran its
\* updateDevice without a module scan and without error, and answered OPEN
\* from the device as the earlier operation left it: with the clock at 1 the
\* stamp is still 0.
C19_Witness ==
  \E t \in Tasks :
    /\ calls = 2 /\ task[t].op = "getStatus" /\ task[t].pc = "done"
    /\ task[t].updates = 1 /\ task[t].scans = 0
    /\ task[t].result = "returned" /\ task[t].value = Str("OPEN")
    /\ device.state = Num(1) /\ device.portId = Num(7) /\ device.moduleId = Num(5)
    /\ device.stateAsOf = Num(0) /\ now = 1

\* The command frame that an authorized message makes caller t send.
NewCommandFrame(t) == ws'[t].log[Len(ws[t].log) + 2]

\* C20: every command frame carries the moduleId and portId that passed the
\* addressing check of its own invocation, both resolved, whatever the other
\* caller does to the device in between.
C20_FrameCarriesCheckedAddress ==
  [][\A t \in Tasks :
       WsMessage(t, TRUE) =>
         /\ NewCommandFrame(t).kind = "command"
         /\ NewCommandFrame(t).moduleType = task[t].checked[1]
         /\ NewCommandFrame(t).portId = task[t].checked[2]
         /\ NewCommandFrame(t).moduleType.t = "number"
         /\ NewCommandFrame(t).portId.t = "number"]_vars

\* What does hold of the frame: it carries the device's moduleId, portId and
\* id as they are when the authorized message arrives, and the values that
\* passed the check were resolved when they were checked.
C20_FrameCarriesDeviceAddress ==
  [][\A t \in Tasks :
       /\ WsMessage(t, TRUE) =>
            /\ NewCommandFrame(t).moduleType = device.moduleId
            /\ NewCommandFrame(t).portId = device.portId
            /\ NewCommandFrame(t).topic = device.id
       /\ (task[t].checked = <<>> /\ task'[t].checked # <<>>) =>
            /\ task'[t].checked = <<device'.moduleId, device'.portId>>
            /\ Truthy(device'.moduleId) /\ Truthy(device'.portId)]_vars

====
